---- MODULE Spec2Model ----
(***************************************************************************)
(* In-memory B+ tree of anocaj/db-internals (src/btree/bplus_tree.hpp):    *)
(* nodes live in an arena `nodes` indexed by handles 1..Len(nodes) (the    *)
(* shared_ptr identities of the C++ code), 0 is nullptr.  Indices into     *)
(* keys_/values_/children_ are 0-based as in the source; the TLA+          *)
(* sequences that hold them are 1-based, so element i is seq[i + 1].       *)
(***************************************************************************)
EXTENDS Integers, Sequences, FiniteSets, TLC

\* ---- bounds of the model ------------------------------------------------
MaxKey == 5
MaxScanKey == 4
MaxBF == 4
MaxGrowKey == 9
MaxFreeKey == 3

\* ---- program constants --------------------------------------------------
MinBF == 3

NULL == 0
nullopt == "nullopt"

\* The code copies values and never inspects them: two distinct values are all
\* an execution can tell apart.
Keys == 1..MaxKey
Vals == {"a", "b"}
BFs == 0..MaxBF

VARIABLES
    branching_factor_,  \* BPlusTree::branching_factor_
    root_,              \* BPlusTree::root_ (a handle, or NULL)
    nodes,              \* the arena: every node ever allocated
    live,               \* history: key -> value of the last insert, nullopt once removed
    call,               \* history: the last public call and what it returned
    it,                 \* a BPlusTreeIterator held by the caller
    it_stale            \* history: the tree was modified since `it` was created

vars == <<branching_factor_, root_, nodes, live, call, it, it_stale>>

\* ---- std::vector helpers (0-based positions) ------------------------------
vec_insert(s, i, x) == SubSeq(s, 1, i) \o <<x>> \o SubSeq(s, i + 1, Len(s))

vec_erase(s, i) == SubSeq(s, 1, i) \o SubSeq(s, i + 2, Len(s))

vec_assign(s, from, to) == SubSeq(s, from + 1, to)

Min(S) == CHOOSE x \in S : \A y \in S : x <= y

\* std::lower_bound over [0, n): the first position whose key is not < key
lower_bound(keys, n, key) ==
    Min({i \in 0..n : i = n \/ ~(keys[i + 1] < key)})

\* ---- BPlusTreeNode ---------------------------------------------------------
LeafNode(max_keys) ==
    [is_leaf |-> TRUE, max_keys |-> max_keys, key_count |-> 0,
     keys |-> <<>>, values |-> <<>>, children |-> <<>>, next |-> NULL]

InternalNode(max_keys) ==
    [is_leaf |-> FALSE, max_keys |-> max_keys, key_count |-> 0,
     keys |-> <<>>, values |-> <<>>, children |-> <<>>, next |-> NULL]

\* is_full written with > : a node is taken to have room for one key more
is_full_off_by_one(n) == n.key_count > n.max_keys

is_full(n) == n.key_count >= n.max_keys

\* is_underflow with the threshold rounded up
is_underflow_ceil(n) == n.key_count < (n.max_keys + 2) \div 2

is_underflow(n) == n.key_count < (n.max_keys + 1) \div 2

get_child(n, index) ==
    IF index < Len(n.children) THEN n.children[index + 1] ELSE NULL

\* insert_child without the key_count_++
insert_child_no_count(n, index, key, child) ==
    IF index <= n.key_count
    THEN [n EXCEPT !.keys = vec_insert(n.keys, index, key),
                   !.children = vec_insert(n.children, index + 1, child)]
    ELSE n

\* insert_child putting the child at index, left of the child that was split
insert_child_left(n, index, key, child) ==
    IF index <= n.key_count
    THEN [n EXCEPT !.keys = vec_insert(n.keys, index, key),
                   !.children = vec_insert(n.children, index, child),
                   !.key_count = n.key_count + 1]
    ELSE n

insert_child(n, index, key, child) ==
    IF index <= n.key_count
    THEN [n EXCEPT !.keys = vec_insert(n.keys, index, key),
                   !.children = vec_insert(n.children, index + 1, child),
                   !.key_count = n.key_count + 1]
    ELSE n

\* ---- variants of the code, each one plausible slip -------------------------------
\* the routing loop breaking on key <= keys[i]: a key equal to a separator goes left
child_index_le(n, key) ==
    Min({i \in 0..n.key_count : i = n.key_count \/ key <= n.keys[i + 1]})

\* remove_value erasing the value at the front instead of the one at index
remove_value_wrong_slot(leaf, key) ==
    LET index == lower_bound(leaf.keys, leaf.key_count, key)
    IN  IF index < leaf.key_count /\ leaf.keys[index + 1] = key
        THEN [ok |-> TRUE,
              node |-> [leaf EXCEPT !.keys = vec_erase(leaf.keys, index),
                                    !.values = vec_erase(leaf.values, 0),
                                    !.key_count = leaf.key_count - 1]]
        ELSE [ok |-> FALSE, node |-> leaf]

\* remove_value without the keys_[index] == key test
remove_value_no_eq(leaf, key) ==
    LET index == lower_bound(leaf.keys, leaf.key_count, key)
    IN  IF index < leaf.key_count
        THEN [ok |-> TRUE,
              node |-> [leaf EXCEPT !.keys = vec_erase(leaf.keys, index),
                                    !.values = vec_erase(leaf.values, index),
                                    !.key_count = leaf.key_count - 1]]
        ELSE [ok |-> FALSE, node |-> leaf]

\* insert_value without the update-in-place branch
insert_value_no_update(leaf, key, value) ==
    LET index == lower_bound(leaf.keys, leaf.key_count, key)
    IN  IF is_full(leaf)
        THEN [ok |-> FALSE, node |-> leaf]
        ELSE [ok |-> TRUE,
              node |-> [leaf EXCEPT !.keys = vec_insert(leaf.keys, index, key),
                                    !.values = vec_insert(leaf.values, index, value),
                                    !.key_count = leaf.key_count + 1]]

\* insert_value adding a new pair at the back instead of at its sorted position
insert_value_push_back(leaf, key, value) ==
    LET index == lower_bound(leaf.keys, leaf.key_count, key)
    IN  IF index < leaf.key_count /\ leaf.keys[index + 1] = key
        THEN [ok |-> TRUE, node |-> [leaf EXCEPT !.values[index + 1] = value]]
        ELSE IF is_full(leaf)
        THEN [ok |-> FALSE, node |-> leaf]
        ELSE [ok |-> TRUE,
              node |-> [leaf EXCEPT !.keys = Append(leaf.keys, key),
                                    !.values = Append(leaf.values, value),
                                    !.key_count = leaf.key_count + 1]]

\* insert_value testing is_full() before it looks for the key
insert_value_full_first(leaf, key, value) ==
    LET index == lower_bound(leaf.keys, leaf.key_count, key)
    IN  IF is_full(leaf)
        THEN [ok |-> FALSE, node |-> leaf]
        ELSE IF index < leaf.key_count /\ leaf.keys[index + 1] = key
        THEN [ok |-> TRUE, node |-> [leaf EXCEPT !.values[index + 1] = value]]
        ELSE [ok |-> TRUE,
              node |-> [leaf EXCEPT !.keys = vec_insert(leaf.keys, index, key),
                                    !.values = vec_insert(leaf.values, index, value),
                                    !.key_count = leaf.key_count + 1]]

\* insert reporting whether the root absorbed the pair without splitting
insert_return_no_split(result) == result.second = NULL

\* ---- LeafNode ---------------------------------------------------------------
find_value(leaf, key) ==
    LET index == lower_bound(leaf.keys, leaf.key_count, key)
    IN  IF index < leaf.key_count /\ leaf.keys[index + 1] = key
        THEN leaf.values[index + 1]
        ELSE nullopt

\* returns the bool of the C++ method and the leaf as the call leaves it
insert_value(leaf, key, value) ==
    LET index == lower_bound(leaf.keys, leaf.key_count, key)
    IN  IF index < leaf.key_count /\ leaf.keys[index + 1] = key
        THEN [ok |-> TRUE, node |-> [leaf EXCEPT !.values[index + 1] = value]]
        ELSE IF is_full(leaf)
        THEN [ok |-> FALSE, node |-> leaf]
        ELSE [ok |-> TRUE,
              node |-> [leaf EXCEPT !.keys = vec_insert(leaf.keys, index, key),
                                    !.values = vec_insert(leaf.values, index, value),
                                    !.key_count = leaf.key_count + 1]]

\* remove_value without key_count_--
remove_value_keeps_count(leaf, key) ==
    LET index == lower_bound(leaf.keys, leaf.key_count, key)
    IN  IF index < leaf.key_count /\ leaf.keys[index + 1] = key
        THEN [ok |-> TRUE,
              node |-> [leaf EXCEPT !.keys = vec_erase(leaf.keys, index),
                                    !.values = vec_erase(leaf.values, index)]]
        ELSE [ok |-> FALSE, node |-> leaf]

remove_value(leaf, key) ==
    LET index == lower_bound(leaf.keys, leaf.key_count, key)
    IN  IF index < leaf.key_count /\ leaf.keys[index + 1] = key
        THEN [ok |-> TRUE,
              node |-> [leaf EXCEPT !.keys = vec_erase(leaf.keys, index),
                                    !.values = vec_erase(leaf.values, index),
                                    !.key_count = leaf.key_count - 1]]
        ELSE [ok |-> FALSE, node |-> leaf]

\* the leaf split point taken as max_keys / 2, as InternalNode::split takes it
leaf_split_mid_half(max_keys) == max_keys \div 2

leaf_split_mid(max_keys) == (max_keys + 1) \div 2

\* LeafNode::split() with the two link assignments in the other order: the new
\* leaf's next is read after this->next_ was pointed at the new leaf
leaf_split_links_swapped(leaf, new_id) ==
    LET mid == leaf_split_mid(leaf.max_keys)
        new_leaf == [LeafNode(leaf.max_keys) EXCEPT
                        !.keys = vec_assign(leaf.keys, mid, Len(leaf.keys)),
                        !.values = vec_assign(leaf.values, mid, Len(leaf.values)),
                        !.key_count = Len(leaf.keys) - mid,
                        !.next = new_id]
    IN  [node |-> [leaf EXCEPT !.next = new_id,
                               !.keys = SubSeq(leaf.keys, 1, mid),
                               !.values = SubSeq(leaf.values, 1, mid),
                               !.key_count = mid],
         new |-> new_leaf]

\* LeafNode::split() without new_leaf->next_ = next_
leaf_split_drop_next(leaf, new_id) ==
    LET mid == leaf_split_mid(leaf.max_keys)
        new_leaf == [LeafNode(leaf.max_keys) EXCEPT
                        !.keys = vec_assign(leaf.keys, mid, Len(leaf.keys)),
                        !.values = vec_assign(leaf.values, mid, Len(leaf.values)),
                        !.key_count = Len(leaf.keys) - mid]
    IN  [node |-> [leaf EXCEPT !.next = new_id,
                               !.keys = SubSeq(leaf.keys, 1, mid),
                               !.values = SubSeq(leaf.values, 1, mid),
                               !.key_count = mid],
         new |-> new_leaf]

\* LeafNode::split(); new_id is the handle make_shared hands out
leaf_split(leaf, new_id) ==
    LET mid == leaf_split_mid(leaf.max_keys)
        new_leaf == [LeafNode(leaf.max_keys) EXCEPT
                        !.keys = vec_assign(leaf.keys, mid, Len(leaf.keys)),
                        !.values = vec_assign(leaf.values, mid, Len(leaf.values)),
                        !.key_count = Len(leaf.keys) - mid,
                        !.next = leaf.next]
    IN  [node |-> [leaf EXCEPT !.next = new_id,
                               !.keys = SubSeq(leaf.keys, 1, mid),
                               !.values = SubSeq(leaf.values, 1, mid),
                               !.key_count = mid],
         new |-> new_leaf]

\* ---- BPlusTree: descent -----------------------------------------------------
\* the child-selection loop shared by search, insert_helper, remove_helper,
\* range_query and range_begin
child_index(n, key) ==
    Min({i \in 0..n.key_count : i = n.key_count \/ key < n.keys[i + 1]})

\* find_leaf / the descent loop of search, range_query and range_begin:
\* the leaf a key routes to, NULL when a child reference is missing
RECURSIVE descend(_, _, _)
descend(h, n, key) ==
    IF n = NULL THEN NULL
    ELSE IF h[n].is_leaf THEN n
    ELSE descend(h, get_child(h[n], child_index(h[n], key)), key)

search(h, root, key) ==
    IF root = NULL THEN nullopt
    ELSE LET leaf == descend(h, root, key)
         IN  IF leaf = NULL THEN nullopt ELSE find_value(h[leaf], key)

\* the scan of one leaf inside range_query, from position i on:
\* done = TRUE when a key > end made the function return
RECURSIVE scan_leaf(_, _, _, _, _)
scan_leaf(leaf, i, start, end, acc) ==
    IF i >= leaf.key_count THEN [done |-> FALSE, result |-> acc]
    ELSE LET key == leaf.keys[i + 1]
         IN  IF key >= start /\ key <= end
             THEN scan_leaf(leaf, i + 1, start, end,
                            Append(acc, <<key, leaf.values[i + 1]>>))
             ELSE IF key > end
             THEN [done |-> TRUE, result |-> acc]
             ELSE scan_leaf(leaf, i + 1, start, end, acc)

\* the while (leaf) loop of range_query over the leaf chain
RECURSIVE scan_chain(_, _, _, _, _)
scan_chain(h, leaf, start, end, acc) ==
    IF leaf = NULL THEN acc
    ELSE LET r == scan_leaf(h[leaf], 0, start, end, acc)
         IN  IF r.done THEN r.result
             ELSE scan_chain(h, h[leaf].next, start, end, r.result)

\* range_query locating its first leaf by the end of the range
range_query_from_end(h, root, start, end) ==
    IF root = NULL THEN <<>>
    ELSE scan_chain(h, descend(h, root, end), start, end, <<>>)

range_query(h, root, start, end) ==
    IF root = NULL THEN <<>>
    ELSE scan_chain(h, descend(h, root, start), start, end, <<>>)

empty(h, root) == root = NULL \/ h[root].key_count = 0

\* ---- BPlusTree: insert --------------------------------------------------------
\* the internal split point taken at the last key of the expanded array
internal_split_mid_last(all_keys) == Len(all_keys) - 1

\* the internal split point taken over the node's own keys (max_keys / 2, as
\* InternalNode::split takes it), not over the expanded array
internal_split_mid_low(all_keys) == (Len(all_keys) - 1) \div 2

internal_split_mid(all_keys) == Len(all_keys) \div 2

\* insert_helper whose internal split hands up the child's new node
\* (result.second) where the code hands up new_internal
RECURSIVE insert_helper_wrong_second(_, _, _, _)
insert_helper_wrong_second(h, n, key, value) ==
    IF h[n].is_leaf
    THEN LET r == insert_value(h[n], key, value)
         IN  IF r.ok
             THEN [heap |-> [h EXCEPT ![n] = r.node], first |-> key, second |-> NULL]
             ELSE LET new_id == Len(h) + 1
                      s == leaf_split(h[n], new_id)
                      left == key <= s.node.keys[Len(s.node.keys)]
                      leaf == IF left THEN insert_value(s.node, key, value).node
                              ELSE s.node
                      new_leaf == IF left THEN s.new
                                  ELSE insert_value(s.new, key, value).node
                  IN  [heap |-> Append([h EXCEPT ![n] = leaf], new_leaf),
                       first |-> new_leaf.keys[1], second |-> new_id]
    ELSE LET ci == child_index(h[n], key)
             child == get_child(h[n], ci)
             result == insert_helper_wrong_second(h, child, key, value)
             h1 == result.heap
             internal == h1[n]
         IN  IF result.second # NULL
             THEN IF ~is_full(internal)
                  THEN [heap |-> [h1 EXCEPT ![n] =
                                    insert_child(internal, ci, result.first, result.second)],
                        first |-> key, second |-> NULL]
                  ELSE LET all_keys == vec_insert(internal.keys, ci, result.first)
                           all_children ==
                               vec_insert(internal.children, ci + 1, result.second)
                           mid == internal_split_mid(all_keys)
                           new_internal ==
                               [InternalNode(internal.max_keys) EXCEPT
                                   !.keys = vec_assign(all_keys, mid + 1, Len(all_keys)),
                                   !.children = vec_assign(all_children, mid + 1,
                                                           Len(all_children)),
                                   !.key_count = Len(all_keys) - mid - 1]
                       IN  [heap |-> Append(
                                [h1 EXCEPT ![n] =
                                    [internal EXCEPT
                                        !.keys = vec_assign(all_keys, 0, mid),
                                        !.children = vec_assign(all_children, 0, mid + 1),
                                        !.key_count = mid]],
                                new_internal),
                            first |-> all_keys[mid + 1], second |-> result.second]
             ELSE [heap |-> h1, first |-> key, second |-> NULL]

\* insert_helper whose internal split leaves the promoted key in the new
\* node as well, the way a leaf split does
RECURSIVE insert_helper_keeps_promoted(_, _, _, _)
insert_helper_keeps_promoted(h, n, key, value) ==
    IF h[n].is_leaf
    THEN LET r == insert_value(h[n], key, value)
         IN  IF r.ok
             THEN [heap |-> [h EXCEPT ![n] = r.node], first |-> key, second |-> NULL]
             ELSE LET new_id == Len(h) + 1
                      s == leaf_split(h[n], new_id)
                      left == key <= s.node.keys[Len(s.node.keys)]
                      leaf == IF left THEN insert_value(s.node, key, value).node
                              ELSE s.node
                      new_leaf == IF left THEN s.new
                                  ELSE insert_value(s.new, key, value).node
                  IN  [heap |-> Append([h EXCEPT ![n] = leaf], new_leaf),
                       first |-> new_leaf.keys[1], second |-> new_id]
    ELSE LET ci == child_index(h[n], key)
             child == get_child(h[n], ci)
             result == insert_helper_keeps_promoted(h, child, key, value)
             h1 == result.heap
             internal == h1[n]
         IN  IF result.second # NULL
             THEN IF ~is_full(internal)
                  THEN [heap |-> [h1 EXCEPT ![n] =
                                    insert_child(internal, ci, result.first, result.second)],
                        first |-> key, second |-> NULL]
                  ELSE LET all_keys == vec_insert(internal.keys, ci, result.first)
                           all_children ==
                               vec_insert(internal.children, ci + 1, result.second)
                           mid == internal_split_mid(all_keys)
                           promoted_key == all_keys[mid + 1]
                           new_id == Len(h1) + 1
                           new_internal ==
                               [InternalNode(internal.max_keys) EXCEPT
                                   !.keys = vec_assign(all_keys, mid, Len(all_keys)),
                                   !.children = vec_assign(all_children, mid + 1,
                                                           Len(all_children)),
                                   !.key_count = Len(all_keys) - mid]
                       IN  [heap |-> Append(
                                [h1 EXCEPT ![n] =
                                    [internal EXCEPT
                                        !.keys = vec_assign(all_keys, 0, mid),
                                        !.children = vec_assign(all_children, 0, mid + 1),
                                        !.key_count = mid]],
                                new_internal),
                            first |-> promoted_key, second |-> new_id]
             ELSE [heap |-> h1, first |-> key, second |-> NULL]

\* insert_helper reading the separator off the new leaf before the new pair
\* is placed
RECURSIVE insert_helper_stale_separator(_, _, _, _)
insert_helper_stale_separator(h, n, key, value) ==
    IF h[n].is_leaf
    THEN LET r == insert_value(h[n], key, value)
         IN  IF r.ok
             THEN [heap |-> [h EXCEPT ![n] = r.node], first |-> key, second |-> NULL]
             ELSE LET new_id == Len(h) + 1
                      s == leaf_split(h[n], new_id)
                      left == key <= s.node.keys[Len(s.node.keys)]
                      leaf == IF left THEN insert_value(s.node, key, value).node
                              ELSE s.node
                      new_leaf == IF left THEN s.new
                                  ELSE insert_value(s.new, key, value).node
                  IN  [heap |-> Append([h EXCEPT ![n] = leaf], new_leaf),
                       first |-> s.new.keys[1], second |-> new_id]
    ELSE LET ci == child_index(h[n], key)
             child == get_child(h[n], ci)
             result == insert_helper_stale_separator(h, child, key, value)
             h1 == result.heap
             internal == h1[n]
         IN  IF result.second # NULL
             THEN IF ~is_full(internal)
                  THEN [heap |-> [h1 EXCEPT ![n] =
                                    insert_child(internal, ci, result.first, result.second)],
                        first |-> key, second |-> NULL]
                  ELSE LET all_keys == vec_insert(internal.keys, ci, result.first)
                           all_children ==
                               vec_insert(internal.children, ci + 1, result.second)
                           mid == internal_split_mid(all_keys)
                           promoted_key == all_keys[mid + 1]
                           new_id == Len(h1) + 1
                           new_internal ==
                               [InternalNode(internal.max_keys) EXCEPT
                                   !.keys = vec_assign(all_keys, mid + 1, Len(all_keys)),
                                   !.children = vec_assign(all_children, mid + 1,
                                                           Len(all_children)),
                                   !.key_count = Len(all_keys) - mid - 1]
                       IN  [heap |-> Append(
                                [h1 EXCEPT ![n] =
                                    [internal EXCEPT
                                        !.keys = vec_assign(all_keys, 0, mid),
                                        !.children = vec_assign(all_children, 0, mid + 1),
                                        !.key_count = mid]],
                                new_internal),
                            first |-> promoted_key, second |-> new_id]
             ELSE [heap |-> h1, first |-> key, second |-> NULL]

\* insert_helper whose internal node, having absorbed the child's split,
\* returns the child's result to its own caller
RECURSIVE insert_helper_reports_absorbed(_, _, _, _)
insert_helper_reports_absorbed(h, n, key, value) ==
    IF h[n].is_leaf
    THEN LET r == insert_value(h[n], key, value)
         IN  IF r.ok
             THEN [heap |-> [h EXCEPT ![n] = r.node], first |-> key, second |-> NULL]
             ELSE LET new_id == Len(h) + 1
                      s == leaf_split(h[n], new_id)
                      left == key <= s.node.keys[Len(s.node.keys)]
                      leaf == IF left THEN insert_value(s.node, key, value).node
                              ELSE s.node
                      new_leaf == IF left THEN s.new
                                  ELSE insert_value(s.new, key, value).node
                  IN  [heap |-> Append([h EXCEPT ![n] = leaf], new_leaf),
                       first |-> new_leaf.keys[1], second |-> new_id]
    ELSE LET ci == child_index(h[n], key)
             child == get_child(h[n], ci)
             result == insert_helper_reports_absorbed(h, child, key, value)
             h1 == result.heap
             internal == h1[n]
         IN  IF result.second # NULL
             THEN IF ~is_full(internal)
                  THEN [heap |-> [h1 EXCEPT ![n] =
                                    insert_child(internal, ci, result.first, result.second)],
                        first |-> result.first, second |-> result.second]
                  ELSE LET all_keys == vec_insert(internal.keys, ci, result.first)
                           all_children ==
                               vec_insert(internal.children, ci + 1, result.second)
                           mid == internal_split_mid(all_keys)
                           promoted_key == all_keys[mid + 1]
                           new_id == Len(h1) + 1
                           new_internal ==
                               [InternalNode(internal.max_keys) EXCEPT
                                   !.keys = vec_assign(all_keys, mid + 1, Len(all_keys)),
                                   !.children = vec_assign(all_children, mid + 1,
                                                           Len(all_children)),
                                   !.key_count = Len(all_keys) - mid - 1]
                       IN  [heap |-> Append(
                                [h1 EXCEPT ![n] =
                                    [internal EXCEPT
                                        !.keys = vec_assign(all_keys, 0, mid),
                                        !.children = vec_assign(all_children, 0, mid + 1),
                                        !.key_count = mid]],
                                new_internal),
                            first |-> promoted_key, second |-> new_id]
             ELSE [heap |-> h1, first |-> key, second |-> NULL]

\* the pair insert_helper returns (first, second) and the arena as it leaves it
RECURSIVE insert_helper(_, _, _, _)
insert_helper(h, n, key, value) ==
    IF h[n].is_leaf
    THEN LET r == insert_value(h[n], key, value)
         IN  IF r.ok
             THEN [heap |-> [h EXCEPT ![n] = r.node], first |-> key, second |-> NULL]
             ELSE LET new_id == Len(h) + 1
                      s == leaf_split(h[n], new_id)
                      left == key <= s.node.keys[Len(s.node.keys)]
                      leaf == IF left THEN insert_value(s.node, key, value).node
                              ELSE s.node
                      new_leaf == IF left THEN s.new
                                  ELSE insert_value(s.new, key, value).node
                  IN  [heap |-> Append([h EXCEPT ![n] = leaf], new_leaf),
                       first |-> new_leaf.keys[1], second |-> new_id]
    ELSE LET ci == child_index(h[n], key)
             child == get_child(h[n], ci)
             result == insert_helper(h, child, key, value)
             h1 == result.heap
             internal == h1[n]
         IN  IF result.second # NULL
             THEN IF ~is_full(internal)
                  THEN [heap |-> [h1 EXCEPT ![n] =
                                    insert_child(internal, ci, result.first, result.second)],
                        first |-> key, second |-> NULL]
                  ELSE LET all_keys == vec_insert(internal.keys, ci, result.first)
                           all_children ==
                               vec_insert(internal.children, ci + 1, result.second)
                           mid == internal_split_mid(all_keys)
                           promoted_key == all_keys[mid + 1]
                           new_id == Len(h1) + 1
                           new_internal ==
                               [InternalNode(internal.max_keys) EXCEPT
                                   !.keys = vec_assign(all_keys, mid + 1, Len(all_keys)),
                                   !.children = vec_assign(all_children, mid + 1,
                                                           Len(all_children)),
                                   !.key_count = Len(all_keys) - mid - 1]
                       IN  [heap |-> Append(
                                [h1 EXCEPT ![n] =
                                    [internal EXCEPT
                                        !.keys = vec_assign(all_keys, 0, mid),
                                        !.children = vec_assign(all_children, 0, mid + 1),
                                        !.key_count = mid]],
                                new_internal),
                            first |-> promoted_key, second |-> new_id]
             ELSE [heap |-> h1, first |-> key, second |-> NULL]

\* what BPlusTree::insert hands back to its caller
insert_return(result) == TRUE

\* insert building the new root with the new sibling in front of the old root
insert_root_children_swapped(h, root, bf, key, value) ==
    LET h0 == IF root = NULL THEN Append(h, LeafNode(bf - 1)) ELSE h
        root0 == IF root = NULL THEN Len(h0) ELSE root
        result == insert_helper(h0, root0, key, value)
    IN  IF result.second # NULL
        THEN LET new_root == [InternalNode(bf - 1) EXCEPT
                                 !.keys = <<result.first>>,
                                 !.children = <<result.second, root0>>,
                                 !.key_count = 1]
             IN  [heap |-> Append(result.heap, new_root),
                  root |-> Len(result.heap) + 1,
                  ret |-> insert_return(result)]
        ELSE [heap |-> result.heap, root |-> root0, ret |-> insert_return(result)]

\* BPlusTree::insert: root_ and the arena after the call, and the return value
insert(h, root, bf, key, value) ==
    LET h0 == IF root = NULL THEN Append(h, LeafNode(bf - 1)) ELSE h
        root0 == IF root = NULL THEN Len(h0) ELSE root
        result == insert_helper(h0, root0, key, value)
    IN  IF result.second # NULL
        THEN LET new_root == [InternalNode(bf - 1) EXCEPT
                                 !.keys = <<result.first>>,
                                 !.children = <<root0, result.second>>,
                                 !.key_count = 1]
             IN  [heap |-> Append(result.heap, new_root),
                  root |-> Len(result.heap) + 1,
                  ret |-> insert_return(result)]
        ELSE [heap |-> result.heap, root |-> root0, ret |-> insert_return(result)]

\* ---- BPlusTree: remove --------------------------------------------------------
\* remove_helper that also erases the key from an internal node that has it
\* as a separator
RECURSIVE remove_helper_drops_separator(_, _, _)
remove_helper_drops_separator(h, n, key) ==
    IF h[n].is_leaf
    THEN LET r == remove_value(h[n], key)
         IN  [heap |-> [h EXCEPT ![n] = r.node], removed |-> r.ok]
    ELSE LET child == get_child(h[n], child_index(h[n], key))
         IN  IF child = NULL THEN [heap |-> h, removed |-> FALSE]
             ELSE LET r == remove_helper_drops_separator(h, child, key)
                      index == lower_bound(h[n].keys, h[n].key_count, key)
                  IN  IF r.removed /\ index < h[n].key_count
                                   /\ h[n].keys[index + 1] = key
                      THEN [heap |-> [r.heap EXCEPT ![n] =
                                        [@ EXCEPT !.keys = vec_erase(@, index),
                                                  !.key_count = @ - 1]],
                            removed |-> TRUE]
                      ELSE r

RECURSIVE remove_helper(_, _, _)
remove_helper(h, n, key) ==
    IF h[n].is_leaf
    THEN LET r == remove_value(h[n], key)
         IN  [heap |-> [h EXCEPT ![n] = r.node], removed |-> r.ok]
    ELSE LET child == get_child(h[n], child_index(h[n], key))
         IN  IF child = NULL THEN [heap |-> h, removed |-> FALSE]
             ELSE remove_helper(h, child, key)

\* remove collapsing an internal root of one key (one key taken for one child)
remove_collapse_on_one_key(h, root, key) ==
    IF root = NULL THEN [heap |-> h, root |-> root, ret |-> FALSE]
    ELSE LET r == remove_helper(h, root, key)
             top == r.heap[root]
         IN  [heap |-> r.heap,
              root |-> IF ~top.is_leaf /\ top.key_count = 1
                       THEN top.children[1] ELSE root,
              ret |-> r.removed]

\* remove answering true when there is no root (nothing is left to remove)
remove_done_without_root(h, root, key) ==
    IF root = NULL THEN [heap |-> h, root |-> root, ret |-> TRUE]
    ELSE LET r == remove_helper(h, root, key)
             top == r.heap[root]
         IN  [heap |-> r.heap,
              root |-> IF ~top.is_leaf /\ top.key_count = 0 /\ Len(top.children) = 1
                       THEN top.children[1] ELSE root,
              ret |-> r.removed]

remove(h, root, key) ==
    IF root = NULL THEN [heap |-> h, root |-> root, ret |-> FALSE]
    ELSE LET r == remove_helper(h, root, key)
             top == r.heap[root]
         IN  [heap |-> r.heap,
              root |-> IF ~top.is_leaf /\ top.key_count = 0 /\ Len(top.children) = 1
                       THEN top.children[1] ELSE root,
              ret |-> r.removed]

\* ---- BPlusTreeIterator --------------------------------------------------------
\* end_key_ is read only under has_end_; an unbounded iterator carries NULL there
iterator_end == [current_leaf |-> NULL, current_index |-> 0,
                 end_key |-> NULL, has_end |-> FALSE]

iterator_bounded(leaf, index, end_key) ==
    [current_leaf |-> leaf, current_index |-> index,
     end_key |-> end_key, has_end |-> TRUE]

iterator_unbounded(leaf, index) ==
    [current_leaf |-> leaf, current_index |-> index,
     end_key |-> NULL, has_end |-> FALSE]

out_of_range == <<>>

\* operator*: the pair, or out_of_range for the exception
deref(h, i) ==
    IF i.current_leaf = NULL \/ i.current_index >= h[i.current_leaf].key_count
    THEN out_of_range
    ELSE <<h[i.current_leaf].keys[i.current_index + 1],
           h[i.current_leaf].values[i.current_index + 1]>>

exceeds_end_bound(h, i) ==
    /\ i.has_end
    /\ i.current_leaf # NULL
    /\ i.current_index < h[i.current_leaf].key_count
    /\ h[i.current_leaf].keys[i.current_index + 1] > i.end_key

\* operator++ counting the index up before it tests for the end
advance_index_first(h, i) ==
    LET i1 == [i EXCEPT !.current_index = i.current_index + 1]
    IN  IF i.current_leaf = NULL THEN i1
        ELSE LET i2 == IF i1.current_index >= h[i1.current_leaf].key_count
                       THEN [i1 EXCEPT !.current_leaf = h[i1.current_leaf].next,
                                       !.current_index = 0]
                       ELSE i1
             IN  IF exceeds_end_bound(h, i2)
                 THEN [i2 EXCEPT !.current_leaf = NULL]
                 ELSE i2

\* operator++ moving to the next leaf without current_index_ = 0
advance_keeps_index(h, i) ==
    IF i.current_leaf = NULL THEN i
    ELSE LET i1 == [i EXCEPT !.current_index = i.current_index + 1]
             i2 == IF i1.current_index >= h[i1.current_leaf].key_count
                   THEN [i1 EXCEPT !.current_leaf = h[i1.current_leaf].next]
                   ELSE i1
         IN  IF exceeds_end_bound(h, i2)
             THEN [i2 EXCEPT !.current_leaf = NULL]
             ELSE i2

\* operator++ resetting the index without current_leaf_ = get_next()
advance_stays_on_leaf(h, i) ==
    IF i.current_leaf = NULL THEN i
    ELSE LET i1 == [i EXCEPT !.current_index = i.current_index + 1]
             i2 == IF i1.current_index >= h[i1.current_leaf].key_count
                   THEN [i1 EXCEPT !.current_index = 0]
                   ELSE i1
         IN  IF exceeds_end_bound(h, i2)
             THEN [i2 EXCEPT !.current_leaf = NULL]
             ELSE i2

\* operator++
advance(h, i) ==
    IF i.current_leaf = NULL THEN i
    ELSE LET i1 == [i EXCEPT !.current_index = i.current_index + 1]
             i2 == IF i1.current_index >= h[i1.current_leaf].key_count
                   THEN [i1 EXCEPT !.current_leaf = h[i1.current_leaf].next,
                                   !.current_index = 0]
                   ELSE i1
         IN  IF exceeds_end_bound(h, i2)
             THEN [i2 EXCEPT !.current_leaf = NULL]
             ELSE i2

\* operator==
iterator_eq(a, b) ==
    a.current_leaf = b.current_leaf /\ a.current_index = b.current_index

is_end(i) == i.current_leaf = NULL

\* the start-position loop of range_begin inside one leaf
start_index_in(leaf, start_key) ==
    Min({i \in 0..leaf.key_count :
            i = leaf.key_count \/ leaf.keys[i + 1] >= start_key})

\* the step to the next leaf written as an if: one leaf is stepped over at most
skip_leaves_once(h, leaf, start_index) ==
    IF leaf # NULL /\ start_index >= h[leaf].key_count
    THEN [leaf |-> h[leaf].next, index |-> 0]
    ELSE [leaf |-> leaf, index |-> start_index]

\* the loop of range_begin that steps over leaves the start index is beyond
RECURSIVE skip_leaves(_, _, _)
skip_leaves(h, leaf, start_index) ==
    IF leaf # NULL /\ start_index >= h[leaf].key_count
    THEN skip_leaves(h, h[leaf].next, 0)
    ELSE [leaf |-> leaf, index |-> start_index]

range_begin_pos(h, root, start_key) ==
    LET leaf == descend(h, root, start_key)
    IN  skip_leaves(h, leaf, start_index_in(h[leaf], start_key))

\* range_begin(start_key)
range_begin(h, root, start_key) ==
    IF root = NULL \/ descend(h, root, start_key) = NULL THEN iterator_end
    ELSE LET p == range_begin_pos(h, root, start_key)
         IN  iterator_unbounded(p.leaf, p.index)

\* range_begin(start_key, end_key)
range_begin_bounded(h, root, start_key, end_key) ==
    IF root = NULL \/ descend(h, root, start_key) = NULL THEN iterator_end
    ELSE LET p == range_begin_pos(h, root, start_key)
         IN  iterator_bounded(p.leaf, p.index, end_key)

range_end == iterator_end

\* ---- the program as a state machine --------------------------------------------
\* a constructor that keeps the branching factor it is given
construct_no_clamp(branching_factor) == branching_factor

\* BPlusTree(branching_factor)
construct(branching_factor) ==
    IF branching_factor < MinBF THEN MinBF ELSE branching_factor

Init ==
    /\ \E bf \in BFs : branching_factor_ = construct(bf)
    /\ root_ = NULL
    /\ nodes = <<>>
    /\ live = [k \in Keys |-> nullopt]
    /\ call = [op |-> "construct", prior |-> "none", made |-> 0, ret |-> TRUE]
    /\ it = iterator_end
    /\ it_stale = FALSE

\* how the value a key held before a call relates to the value given (history)
Prior(was, value) ==
    IF was = nullopt THEN "absent" ELSE IF was = value THEN "same" ELSE "other"

\* tree.insert(k, v); call.made counts the nodes the call allocated
Insert(k, v) ==
    LET r == insert(nodes, root_, branching_factor_, k, v)
    IN  /\ nodes' = r.heap
        /\ root_' = r.root
        /\ live' = [live EXCEPT ![k] = v]
        /\ call' = [op |-> "insert", prior |-> Prior(live[k], v),
                    made |-> Len(r.heap) - Len(nodes), ret |-> r.ret]
        /\ it_stale' = (it_stale \/ r.heap # nodes \/ r.root # root_)
        /\ UNCHANGED <<branching_factor_, it>>

\* tree.remove(k)
Remove(k) ==
    LET r == remove(nodes, root_, k)
    IN  /\ nodes' = r.heap
        /\ root_' = r.root
        /\ live' = [live EXCEPT ![k] = IF r.ret THEN nullopt ELSE @]
        /\ call' = [op |-> "remove", prior |-> Prior(live[k], live[k]),
                    made |-> Len(r.heap) - Len(nodes), ret |-> r.ret]
        /\ it_stale' = (it_stale \/ r.heap # nodes \/ r.root # root_)
        /\ UNCHANGED <<branching_factor_, it>>

\* it = tree.range_begin(start_key)
RangeBegin(start_key) ==
    /\ it' = range_begin(nodes, root_, start_key)
    /\ it_stale' = FALSE
    /\ call' = [op |-> "range_begin", prior |-> "none", made |-> 0,
                ret |-> is_end(range_begin(nodes, root_, start_key))]
    /\ UNCHANGED <<branching_factor_, root_, nodes, live>>

\* it = tree.range_begin(start_key, end_key)
RangeBeginBounded(start_key, end_key) ==
    /\ it' = range_begin_bounded(nodes, root_, start_key, end_key)
    /\ it_stale' = FALSE
    /\ call' = [op |-> "range_begin_bounded", prior |-> "none", made |-> 0,
                ret |-> is_end(range_begin_bounded(nodes, root_, start_key, end_key))]
    /\ UNCHANGED <<branching_factor_, root_, nodes, live>>

\* it = tree.range_end()
RangeEnd ==
    /\ it' = range_end
    /\ it_stale' = FALSE
    /\ call' = [op |-> "range_end", prior |-> "none", made |-> 0, ret |-> TRUE]
    /\ UNCHANGED <<branching_factor_, root_, nodes, live>>

\* ++it; call.prior tells whether it was terminal, call.ret whether the
\* iterator the operator returns is
PreIncrement ==
    /\ it' = advance(nodes, it)
    /\ call' = [op |-> "pre_increment",
                prior |-> IF is_end(it) THEN "terminal" ELSE "positioned",
                made |-> 0, ret |-> is_end(advance(nodes, it))]
    /\ UNCHANGED <<branching_factor_, root_, nodes, live, it_stale>>

\* it++; the operator returns the copy taken before the advance
PostIncrement ==
    /\ it' = advance(nodes, it)
    /\ call' = [op |-> "post_increment",
                prior |-> IF is_end(it) THEN "terminal" ELSE "positioned",
                made |-> 0, ret |-> is_end(it)]
    /\ UNCHANGED <<branching_factor_, root_, nodes, live, it_stale>>

\* a search that builds the root leaf when the tree has none, as insert does
SearchCreatingRoot(key) ==
    /\ nodes' = IF root_ = NULL
                THEN Append(nodes, LeafNode(branching_factor_ - 1)) ELSE nodes
    /\ root_' = IF root_ = NULL THEN Len(nodes) + 1 ELSE root_
    /\ call' = [op |-> "search", prior |-> "none", made |-> 0,
                ret |-> search(nodes, root_, key)]
    /\ UNCHANGED <<branching_factor_, live, it, it_stale>>

\* tree.search(key)
Search(key) ==
    /\ call' = [op |-> "search", prior |-> "none", made |-> 0,
                ret |-> search(nodes, root_, key)]
    /\ UNCHANGED <<branching_factor_, root_, nodes, live, it, it_stale>>

\* tree.range_query(start, end)
RangeQuery(start, end) ==
    /\ call' = [op |-> "range_query", prior |-> "none", made |-> 0,
                ret |-> range_query(nodes, root_, start, end)]
    /\ UNCHANGED <<branching_factor_, root_, nodes, live, it, it_stale>>

\* tree.empty()
Empty ==
    /\ call' = [op |-> "empty", prior |-> "none", made |-> 0,
                ret |-> empty(nodes, root_)]
    /\ UNCHANGED <<branching_factor_, root_, nodes, live, it, it_stale>>

\* *it; call.ret is out_of_range when the operator throws
Dereference ==
    /\ call' = [op |-> "dereference",
                prior |-> IF is_end(it) THEN "terminal" ELSE "positioned",
                made |-> 0, ret |-> deref(nodes, it)]
    /\ UNCHANGED <<branching_factor_, root_, nodes, live, it, it_stale>>

\* it == tree.range_end()
Equals ==
    /\ call' = [op |-> "equals",
                prior |-> IF is_end(it) THEN "terminal" ELSE "positioned",
                made |-> 0, ret |-> iterator_eq(it, range_end)]
    /\ UNCHANGED <<branching_factor_, root_, nodes, live, it, it_stale>>

\* it.is_end()
IsEnd ==
    /\ call' = [op |-> "is_end",
                prior |-> IF is_end(it) THEN "terminal" ELSE "positioned",
                made |-> 0, ret |-> is_end(it)]
    /\ UNCHANGED <<branching_factor_, root_, nodes, live, it, it_stale>>

\* the tree on its own: no iterator is ever taken
Next ==
    \/ \E k \in Keys, v \in Vals : Insert(k, v)
    \/ \E k \in Keys : Remove(k)

Spec == Init /\ [][Next]_vars

\* a caller that scans: it mutates the tree only while it holds no position
\* (it = range_end()), and builds the tree from one value and the keys ScanKeys
ScanKeys == 1..MaxScanKey
ScanVals == {"a"}

NextScan ==
    \/ \E k \in ScanKeys, v \in ScanVals : it = range_end /\ Insert(k, v)
    \/ \E k \in ScanKeys : it = range_end /\ Remove(k)
    \/ \E s \in ScanKeys : RangeBegin(s)
    \/ \E s \in ScanKeys, e \in ScanKeys : RangeBeginBounded(s, e)
    \/ RangeEnd
    \/ PreIncrement
    \/ PostIncrement

SpecScan == Init /\ [][NextScan]_vars

\* a tree that only grows: a caller loads the keys GrowKeys, each once, in any
\* order, with one value; seven keys are enough to fill and split an
\* internal node of branching factor 4
GrowKeys == 1..MaxGrowKey
GrowVals == {"a"}

InitGrow ==
    /\ \E bf \in BFs : branching_factor_ = construct(bf)
    /\ root_ = NULL
    /\ nodes = <<>>
    /\ live = [k \in GrowKeys |-> nullopt]
    /\ call = [op |-> "construct", prior |-> "none", made |-> 0, ret |-> TRUE]
    /\ it = iterator_end
    /\ it_stale = FALSE

NextGrow == \E k \in GrowKeys, v \in GrowVals : live[k] = nullopt /\ Insert(k, v)

SpecGrow == InitGrow /\ [][NextGrow]_vars

\* a caller under no discipline: every public call of the tree and of the
\* iterator it holds, in any order, the mutations included while the iterator
\* stands on a leaf; the keys are FreeKeys, with one value
FreeKeys == 1..MaxFreeKey
FreeVals == {"a"}

NextFree ==
    \/ \E k \in FreeKeys, v \in FreeVals : Insert(k, v)
    \/ \E k \in FreeKeys : Remove(k)
    \/ \E k \in FreeKeys : Search(k)
    \/ \E s \in FreeKeys, e \in FreeKeys : RangeQuery(s, e)
    \/ Empty
    \/ \E s \in FreeKeys : RangeBegin(s)
    \/ \E s \in FreeKeys, e \in FreeKeys : RangeBeginBounded(s, e)
    \/ RangeEnd
    \/ Dereference
    \/ PreIncrement
    \/ PostIncrement
    \/ Equals
    \/ IsEnd

SpecFree == Init /\ [][NextFree]_vars

\* ---- vocabulary of the properties ------------------------------------------------
\* the pairs the history says are live with a <= key <= b, in key order
RECURSIVE LiveRange(_, _)
LiveRange(a, b) ==
    IF a > b THEN <<>>
    ELSE (IF live[a] # nullopt THEN <<<<a, live[a]>>>> ELSE <<>>) \o LiveRange(a + 1, b)

\* every (leaf, position) of the arena that stores a key
LeafSlots(h) ==
    {<<n, i>> \in (1..Len(h)) \X (1..MaxKey) : h[n].is_leaf /\ i <= Len(h[n].keys)}

SlotsOf(h, k) == {s \in LeafSlots(h) : h[s[1]].keys[s[2]] = k}

\* number of levels below the root, following the first child
RECURSIVE Height(_, _)
Height(h, n) ==
    IF n = NULL THEN 0
    ELSE IF h[n].is_leaf THEN 1
    ELSE 1 + Height(h, h[n].children[1])

EmptyLeafInChain ==
    \E n \in 1..Len(nodes) :
        nodes[n].is_leaf /\ nodes[n].key_count = 0 /\ nodes[n].next # NULL

\* the live keys that are >= start
LiveFrom(start) == {k \in Keys : k >= start /\ live[k] # nullopt}

\* the lengths of the paths from node n down to the leaves below it
RECURSIVE Depths(_, _)
Depths(h, n) ==
    IF n = NULL THEN {}
    ELSE IF h[n].is_leaf THEN {0}
    ELSE UNION {{d + 1 : d \in Depths(h, h[n].children[c])} :
                    c \in 1..Len(h[n].children)}

StrictlyIncreasing(seq) == \A i \in 1..(Len(seq) - 1) : seq[i] < seq[i + 1]

\* the leaves below node n, left to right as the children arrays order them
RECURSIVE LeavesInOrder(_, _)
RECURSIVE LeavesOfChildren(_, _, _)
LeavesInOrder(h, n) ==
    IF n = NULL THEN <<>>
    ELSE IF h[n].is_leaf THEN <<n>>
    ELSE LeavesOfChildren(h, n, 1)

LeavesOfChildren(h, n, c) ==
    IF c > Len(h[n].children) THEN <<>>
    ELSE LeavesInOrder(h, h[n].children[c]) \o LeavesOfChildren(h, n, c + 1)

\* the leaves met by following next from leaf, at most fuel of them
RECURSIVE Chain(_, _, _)
Chain(h, leaf, fuel) ==
    IF leaf = NULL \/ fuel = 0 THEN <<>>
    ELSE <<leaf>> \o Chain(h, h[leaf].next, fuel - 1)

\* the keys of a sequence of leaves, one leaf after the other
RECURSIVE KeysAlong(_, _)
KeysAlong(h, leaves) ==
    IF leaves = <<>> THEN <<>>
    ELSE h[Head(leaves)].keys \o KeysAlong(h, Tail(leaves))

Range(seq) == {seq[i] : i \in 1..Len(seq)}

\* the keys stored in the leaves below node n
KeysUnder(h, n) == Range(KeysAlong(h, LeavesInOrder(h, n)))

InternalNodes(h) == {n \in 1..Len(h) : ~h[n].is_leaf}

\* the keys a caller may pass, and those of them that are not live
KeyDomain == DOMAIN live

AbsentKeys == {k \in KeyDomain : live[k] = nullopt}

PresentKeys == {k \in KeyDomain : live[k] # nullopt}

\* the values a caller of this tree has used or may use
ValDomain == IF KeyDomain = Keys THEN Vals ELSE GrowVals

\* the nodes the descent for key passes through, from n down to the leaf
RECURSIVE Path(_, _, _)
Path(h, n, key) ==
    IF n = NULL THEN {}
    ELSE IF h[n].is_leaf THEN {n}
    ELSE {n} \cup Path(h, get_child(h[n], child_index(h[n], key)), key)

\* the elements of a finite set of integers in increasing order
RECURSIVE Sorted(_)
Sorted(S) == IF S = {} THEN <<>> ELSE <<Min(S)>> \o Sorted(S \ {Min(S)})

\* the (key, value) pairs of a leaf in slot order, and the same without key k
Pairs(leaf) == [i \in 1..Len(leaf.keys) |-> <<leaf.keys[i], leaf.values[i]>>]

PairsWithout(leaf, k) == SelectSeq(Pairs(leaf), LAMBDA p : p[1] # k)

\* the nodes a call allocated: those of the arena `after` beyond the arena `before`
NewNodes(before, after) == (Len(before) + 1)..Len(after)

\* inserting the absent key k now overflows the leaf it routes to
OverflowsLeaf(k) ==
    /\ root_ # NULL /\ k \in AbsentKeys
    /\ Len(nodes[descend(nodes, root_, k)].keys)
           = nodes[descend(nodes, root_, k)].max_keys

\* the call insert(k, v) made in the current state splits the leaf k routes to
\* so that the leaf keeps its first mid pairs and a new leaf gets the rest
LeafSplitsAt(k, v, mid) ==
    LET n == descend(nodes, root_, k)
        r == insert(nodes, root_, branching_factor_, k, v)
        fresh == {m \in NewNodes(nodes, r.heap) : r.heap[m].is_leaf}
    IN  /\ Cardinality(fresh) = 1
        /\ PairsWithout(r.heap[n], k) = SubSeq(Pairs(nodes[n]), 1, mid)
        /\ \A m \in fresh :
              PairsWithout(r.heap[m], k) =
                  SubSeq(Pairs(nodes[n]), mid + 1, Len(nodes[n].keys))

\* the call insert(k, v) made in the current state splits internal node n
SplitsInternal(n, k, v) ==
    /\ root_ # NULL /\ k \in AbsentKeys
    /\ n \in Path(nodes, root_, k) /\ ~nodes[n].is_leaf
    /\ insert_helper(nodes, n, k, v).second # NULL

\* what the child of n that k routes to hands up to n: (first, second)
FromChild(n, k, v) ==
    insert_helper(nodes, get_child(nodes[n], child_index(nodes[n], k)), k, v)

\* the keys of n together with the key its split child hands up, in order
Expanded(n, k, v) == Sorted(Range(nodes[n].keys) \cup {FromChild(n, k, v).first})

\* the split of n promotes the key at (0-based) index mid of the expanded
\* array and leaves mid keys in n
InternalSplitsAt(n, k, v, mid) ==
    LET r == insert_helper(nodes, n, k, v)
    IN  /\ r.first = Expanded(n, k, v)[mid + 1]
        /\ Len(r.heap[n].keys) = mid

Max(S) == CHOOSE x \in S : \A y \in S : y <= x

\* what the leaf k routes to hands up when insert(k, v) is called now
FromLeaf(k, v) == insert_helper(nodes, descend(nodes, root_, k), k, v)

\* the nodes of the tree: root_ and everything below it
RECURSIVE Subtree(_, _)
Subtree(h, n) ==
    IF n = NULL THEN {}
    ELSE IF h[n].is_leaf THEN {n}
    ELSE {n} \cup UNION {Subtree(h, h[n].children[c]) : c \in 1..Len(h[n].children)}

\* ---- C1 ------------------------------------------------------------------------
\* C1: in every state reached by inserts (and removes) in any key order, for
\* every branching factor, search(k) returns the value of the last insert of k
\* for every key that is live and not-found for every key that is not.
C1_SearchReturnsLastInsert ==
    \A k \in Keys : search(nodes, root_, k) = live[k]

\* an insert has just completed a tree of three levels (leaf splits, an
\* internal split and root growth happened) in which every key is live
C1_Witness ==
    /\ call.op = "insert"
    /\ Height(nodes, root_) = 3
    /\ \A k \in Keys : live[k] # nullopt /\ search(nodes, root_, k) = live[k]

\* ---- C2 ------------------------------------------------------------------------
\* C2: a remove(k) that returns true leaves search(k) not-found and leaves
\* search(j) for every other key j exactly what it was before the call.
C2_RemoveOnlyThatKey ==
    [][\A k \in Keys :
          (call'.op = "remove" /\ call'.ret /\ Remove(k)) =>
              /\ search(nodes', root_', k) = nullopt
              /\ \A j \in Keys \ {k} :
                    search(nodes', root_', j) = search(nodes, root_, j)]_vars

\* a successful remove in a tree with an internal root, other keys still live
C2_Witness ==
    /\ call.op = "remove" /\ call.ret
    /\ Height(nodes, root_) >= 2
    /\ \E k \in Keys : live[k] = nullopt /\ search(nodes, root_, k) = nullopt
    /\ \E j \in Keys : live[j] # nullopt /\ search(nodes, root_, j) = live[j]

\* ---- C3 ------------------------------------------------------------------------
\* C3: for every reachable tree and all keys a, b, range_query(a, b) is exactly
\* the live pairs with a <= key <= b, in strictly increasing key order, each
\* with the key's current value (hence empty when a > b or no live key is in range).
C3_RangeQueryExact ==
    \A a \in Keys, b \in Keys :
        range_query(nodes, root_, a, b) = LiveRange(a, b)

\* a remove has left an empty leaf inside the chain and a range scan still
\* returns pairs from both sides of it
C3_Witness ==
    /\ call.op = "remove" /\ call.ret
    /\ \E a \in Keys, b \in Keys, m \in 1..Len(nodes), n \in 1..Len(nodes) :
          /\ nodes[m].is_leaf /\ nodes[m].next = n
          /\ nodes[n].is_leaf /\ nodes[n].key_count = 0 /\ nodes[n].next # NULL
          /\ descend(nodes, root_, a) = m
          /\ descend(nodes, root_, b) = nodes[n].next
          /\ LET q == range_query(nodes, root_, a, b)
             IN  /\ Len(q) >= 2
                 /\ \E i \in 1..Len(nodes[m].keys) : nodes[m].keys[i] = q[1][1]
                 /\ \E i \in 1..Len(nodes[nodes[n].next].keys) :
                       nodes[nodes[n].next].keys[i] = q[Len(q)][1]

\* ---- C4 ------------------------------------------------------------------------
\* C4: inserting a live key with a different value leaves exactly one slot for
\* that key over all leaves and one pair for it in the full range query, both
\* holding the new value, and the number of stored entries does not change.
C4_UpdateInPlace ==
    [][\A k \in Keys, v \in Vals :
          (call'.op = "insert" /\ live[k] # nullopt /\ live[k] # v /\ Insert(k, v)) =>
              /\ Cardinality(SlotsOf(nodes', k)) = 1
              /\ \A s \in SlotsOf(nodes', k) : nodes'[s[1]].values[s[2]] = v
              /\ LET q == range_query(nodes', root_', 1, MaxKey)
                 IN  /\ Cardinality({i \in 1..Len(q) : q[i][1] = k}) = 1
                     /\ \E i \in 1..Len(q) : q[i] = <<k, v>>
              /\ Cardinality(LeafSlots(nodes')) = Cardinality(LeafSlots(nodes))]_vars

\* the last call gave a live key another value while every leaf was full,
\* and allocated nothing
C4_Witness ==
    /\ call.op = "insert" /\ call.prior = "other" /\ call.made = 0
    /\ \A n \in 1..Len(nodes) : nodes[n].is_leaf => is_full(nodes[n])
    /\ Height(nodes, root_) >= 2

\* ---- C5 ------------------------------------------------------------------------
\* C5: insert returns true in every reachable state, for every key and value,
\* also when the leaf and all its ancestors up to the root were full.
C5_InsertReturnsTrue ==
    call.op = "insert" => call.ret = TRUE

\* an insert of an absent key returned after allocating three nodes: a leaf
\* and an internal node split and a new root was put on top
C5_Witness ==
    /\ call.op = "insert" /\ call.prior = "absent" /\ call.ret = TRUE
    /\ call.made = 3
    /\ root_ = Len(nodes)
    /\ Height(nodes, root_) = 3

\* ---- C6 ------------------------------------------------------------------------
\* C6: remove(k) returns true exactly when k was live before the call, and a
\* remove that returns false leaves root and every node of the arena unchanged.
C6_RemoveReportsPresence ==
    [][\A k \in Keys :
          (call'.op = "remove" /\ Remove(k)) =>
              /\ call'.ret = (live[k] # nullopt)
              /\ (~call'.ret => nodes' = nodes /\ root_' = root_)]_vars

\* a remove of an absent key returned false on a tree with an internal root
C6_Witness ==
    /\ call.op = "remove" /\ call.ret = FALSE /\ call.prior = "absent"
    /\ Height(nodes, root_) >= 2

\* ---- C7 ------------------------------------------------------------------------
\* C7: on a tree not modified since the cursor was created, dereferencing the
\* cursor fails with out_of_range exactly when the cursor is terminal; every
\* non-terminal cursor reached from range_begin by advances yields a live pair.
C7_DerefFailsOnlyWhenTerminal ==
    ~it_stale =>
        /\ (deref(nodes, it) = out_of_range) <=> is_end(it)
        /\ ~is_end(it) => deref(nodes, it) = <<deref(nodes, it)[1], live[deref(nodes, it)[1]]>>

\* ---- C8 ------------------------------------------------------------------------
\* C8: every terminal cursor, however it became terminal, compares equal to
\* range_end() (and so to every other terminal cursor).
C8_TerminalCursorsEqual ==
    is_end(it) => iterator_eq(it, range_end)

\* ---- C9 ------------------------------------------------------------------------
\* the pairs a caller collects by dereferencing a cursor and advancing it until
\* it is terminal (out_of_range stands for a dereference that throws)
RECURSIVE Walk(_, _)
Walk(h, i) ==
    IF is_end(i) THEN <<>> ELSE <<deref(h, i)>> \o Walk(h, advance(h, i))

\* C9: for every reachable tree and all keys start, end, the walk of
\* range_begin(start, end) yields exactly the sequence range_query(start, end).
C9_WalkEqualsRangeQuery ==
    \A s \in Keys, e \in Keys :
        Walk(nodes, range_begin_bounded(nodes, root_, s, e)) = range_query(nodes, root_, s, e)

\* ---- C10 -----------------------------------------------------------------------
\* C10: a bounded cursor never dereferences to a key greater than its end key,
\* neither where range_begin(start, end) put it nor after any advance.
C10_NeverBeyondEndKey ==
    (it.has_end /\ deref(nodes, it) # out_of_range) => deref(nodes, it)[1] <= it.end_key

\* ---- C11 -----------------------------------------------------------------------
\* C11: range_begin(start) is positioned on the smallest live key >= start of the
\* whole tree, however many empty leaves lie in between, and is terminal when
\* the tree has no root or no live key >= start exists.
C11_RangeBeginAtSmallestLive ==
    \A s \in Keys :
        LET c == range_begin(nodes, root_, s)
        IN  IF LiveFrom(s) = {}
            THEN is_end(c)
            ELSE /\ ~is_end(c)
                 /\ deref(nodes, c) = <<Min(LiveFrom(s)), live[Min(LiveFrom(s))]>>

\* the leaf a start key routes to and the leaf after it are both empty, and
\* range_begin is positioned on a key of the third leaf
C11_Witness ==
    \E s \in Keys :
        LET l1 == descend(nodes, root_, s)
            c == range_begin(nodes, root_, s)
        IN  /\ root_ # NULL /\ l1 # NULL
            /\ nodes[l1].key_count = 0
            /\ nodes[l1].next # NULL
            /\ nodes[nodes[l1].next].key_count = 0
            /\ c.current_leaf = nodes[nodes[l1].next].next
            /\ ~is_end(c)
            /\ deref(nodes, c)[1] = Min(LiveFrom(s))

\* ---- C12 -----------------------------------------------------------------------
\* C12: after any sequence of inserts, with removes interleaved or not, every
\* path from the root to a leaf has the same length.
C12_UniformHeight ==
    root_ # NULL => Cardinality(Depths(nodes, root_)) = 1

\* an insert has just returned on a tree of three levels that holds a leaf
\* emptied by an earlier remove
C12_Witness ==
    /\ call.op = "insert"
    /\ Height(nodes, root_) = 3
    /\ Depths(nodes, root_) = {2}
    /\ \E n \in Subtree(nodes, root_) : nodes[n].is_leaf /\ nodes[n].key_count = 0

\* ---- C13 -----------------------------------------------------------------------
\* C13: empty() is true exactly when no key is live, after any sequence of
\* inserts and removes, also once the root has become an Internal node.
C13_EmptyIffNoLive ==
    empty(nodes, root_) <=> (\A k \in Keys : live[k] = nullopt)

\* ---- C14 -----------------------------------------------------------------------
\* C14: while the tree has no root, remove(k) returns false, search(k) is
\* not-found, range_query is empty, range_begin is terminal and empty() is
\* true, for every key, and no call has created a node.
C14_NoRootReportsAbsence ==
    root_ = NULL =>
        /\ nodes = <<>>
        /\ empty(nodes, root_)
        /\ \A k \in Keys :
              /\ remove(nodes, root_, k) = [heap |-> <<>>, root |-> NULL, ret |-> FALSE]
              /\ search(nodes, root_, k) = nullopt
              /\ range_begin(nodes, root_, k) = range_end
        /\ \A a \in Keys, b \in Keys :
              /\ range_query(nodes, root_, a, b) = <<>>
              /\ is_end(range_begin_bounded(nodes, root_, a, b))
        /\ (call.op = "remove" => ~call.ret /\ call.made = 0)
        /\ (call.op \in {"range_begin", "range_begin_bounded"} =>
                call.ret /\ it = range_end)

\* remove has just returned false on a tree that never had a root
C14_Witness ==
    /\ root_ = NULL /\ nodes = <<>>
    /\ call.op = "remove" /\ call.ret = FALSE /\ call.prior = "absent"

\* ---- C15 -----------------------------------------------------------------------
\* C15: construct(bf) with bf < 3 leaves the tree in the state construct(3)
\* leaves it in, so every node created later has max_keys = 2; for bf >= 3
\* the branching factor is kept and every node has max_keys = bf - 1.
C15_ClampedBranchingFactor ==
    /\ \A bf \in BFs : construct(bf) = (IF bf < 3 THEN construct(3) ELSE bf)
    /\ construct(3) = 3
    /\ branching_factor_ \in {construct(bf) : bf \in BFs}
    /\ \A n \in 1..Len(nodes) : nodes[n].max_keys = branching_factor_ - 1

\* the tree construct(0), construct(1), construct(2) and construct(3) all
\* start has grown leaves and internal nodes, each of capacity 2
C15_Witness ==
    /\ branching_factor_ = construct(0)
    /\ construct(1) = branching_factor_ /\ construct(2) = branching_factor_
    /\ Height(nodes, root_) = 3
    /\ \A n \in 1..Len(nodes) : nodes[n].max_keys = 2

\* ---- C16 -----------------------------------------------------------------------
\* C16: in every state between public operations, the keys of every node, leaf
\* or internal, are strictly increasing, and no key is stored in two leaves.
C16_KeysSortedAndUnique ==
    /\ \A n \in 1..Len(nodes) : StrictlyIncreasing(nodes[n].keys)
    /\ \A k \in Keys : Cardinality(SlotsOf(nodes, k)) <= 1

\* an insert has just split a leaf; an internal node and a leaf hold two keys
\* each and four or more keys are stored
C16_Witness ==
    /\ call.op = "insert" /\ call.made >= 1
    /\ \E n \in InternalNodes(nodes) : Len(nodes[n].keys) >= 2
    /\ \E n \in 1..Len(nodes) : nodes[n].is_leaf /\ Len(nodes[n].keys) >= 2
    /\ Cardinality(LeafSlots(nodes)) >= 4

\* ---- C17 -----------------------------------------------------------------------
\* C17: in every state between public operations, every node holds at most
\* max_keys = branching_factor - 1 keys, also the two nodes an internal split
\* filled from its expanded arrays.
C17_KeyCountWithinCapacity ==
    \A n \in 1..Len(nodes) :
        /\ nodes[n].key_count <= nodes[n].max_keys
        /\ Len(nodes[n].keys) <= branching_factor_ - 1

\* an insert has just split a full internal node: the expanded array of
\* max_keys + 1 separators went into two internal nodes below a new root
C17_Witness ==
    /\ call.op = "insert" /\ call.made = 3
    /\ Cardinality(InternalNodes(nodes)) = 3
    /\ LET below == InternalNodes(nodes) \ {root_}
       IN  /\ Cardinality(below) = 2
           /\ Cardinality(UNION {Range(nodes[n].keys) : n \in InternalNodes(nodes)})
                 = branching_factor_
    /\ \E n \in 1..Len(nodes) : nodes[n].is_leaf /\ is_full(nodes[n])

\* ---- C18 -----------------------------------------------------------------------
\* C18: in every state between public operations, every Internal node has
\* exactly key_count + 1 children, none of them null, and its key_count is the
\* length of its key array.
C18_InternalChildren ==
    \A n \in InternalNodes(nodes) :
        /\ Len(nodes[n].children) = nodes[n].key_count + 1
        /\ nodes[n].key_count = Len(nodes[n].keys)
        /\ \A c \in 1..Len(nodes[n].children) :
              nodes[n].children[c] \in 1..Len(nodes)

\* after a remove on a tree of three levels: the root insert built over the
\* two halves of an internal split, each half with one key and two children
C18_Witness ==
    /\ call.op = "remove"
    /\ Height(nodes, root_) = 3
    /\ Len(nodes[root_].children) = 2
    /\ \A n \in InternalNodes(nodes) \ {root_} :
          nodes[n].key_count = 1 /\ Len(nodes[n].children) = 2
    /\ \A n \in InternalNodes(nodes) : \A c \in 1..Len(nodes[n].children) :
          nodes[n].children[c] # NULL

\* ---- C19 -----------------------------------------------------------------------
\* C19: for every Internal node and every child position, each key stored in a
\* leaf below that child is >= the separator left of the child and < the
\* separator right of it (no bound at the two ends); separators whose key
\* has been removed from the leaves bound their subtrees all the same.
C19_Routing ==
    \A n \in InternalNodes(nodes) :
        \A c \in 1..Len(nodes[n].children) :
            \A k \in KeysUnder(nodes, nodes[n].children[c]) :
                /\ (c > 1 => nodes[n].keys[c - 1] <= k)
                /\ (c <= Len(nodes[n].keys) => k < nodes[n].keys[c])

\* a separator's key is stored in no leaf any more, keys are stored on both
\* sides of it, and an insert of an absent key has just been routed
C19_Witness ==
    /\ call.op = "insert" /\ call.prior = "absent"
    /\ \E n \in InternalNodes(nodes) : \E c \in 1..Len(nodes[n].keys) :
          /\ SlotsOf(nodes, nodes[n].keys[c]) = {}
          /\ KeysUnder(nodes, nodes[n].children[c]) # {}
          /\ KeysUnder(nodes, nodes[n].children[c + 1]) # {}

\* ---- C20 -----------------------------------------------------------------------
\* C20: following next from the leftmost leaf visits every leaf exactly once,
\* in the left-to-right order of the tree, and ends at none; the keys met
\* along the chain are strictly increasing; emptied leaves stay in the chain.
C20_LeafChain ==
    root_ # NULL =>
        LET order == LeavesInOrder(nodes, root_)
        IN  /\ Chain(nodes, order[1], Len(nodes) + 1) = order
            /\ Cardinality(Range(order)) = Len(order)
            /\ Range(order) = {n \in 1..Len(nodes) : nodes[n].is_leaf}
            /\ nodes[order[Len(order)]].next = NULL
            /\ StrictlyIncreasing(KeysAlong(nodes, order))

\* a remove has just emptied a leaf that is neither the first nor the last of
\* a chain of four leaves or more
C20_Witness ==
    /\ call.op = "remove" /\ call.ret
    /\ LET order == LeavesInOrder(nodes, root_)
       IN  /\ Len(order) >= 4
           /\ Chain(nodes, order[1], Len(nodes) + 1) = order
           /\ \E i \in 2..(Len(order) - 1) :
                 /\ nodes[order[i]].key_count = 0
                 /\ nodes[order[i - 1]].key_count > 0
                 /\ nodes[order[i + 1]].key_count > 0

\* ---- C21 -----------------------------------------------------------------------
\* C21 as stated: when a full leaf is split, the leaf keeps its first
\* mid = ceil((max_keys + 1) / 2) keys and values and the new leaf receives
\* those from index mid on, for even and odd max_keys.
C21_LeafSplitAtCeil ==
    \A k \in KeyDomain, v \in ValDomain :
        OverflowsLeaf(k) =>
            LeafSplitsAt(k, v, (nodes[descend(nodes, root_, k)].max_keys + 2) \div 2)

\* C21 amended: the same with mid = (max_keys + 1) / 2 in integer division
\* (rounded down): 1 for max_keys = 2, 2 for max_keys = 3.
C21_LeafSplitAtFloor ==
    \A k \in KeyDomain, v \in ValDomain :
        OverflowsLeaf(k) =>
            LeafSplitsAt(k, v, (nodes[descend(nodes, root_, k)].max_keys + 1) \div 2)

\* an insert has just split a leaf of even capacity 2 below an internal node:
\* the leaf the key routes to and the new leaf after it hold the three pairs,
\* and another full leaf stands ready to be split
C21_Witness ==
    /\ call.op = "insert" /\ call.prior = "absent" /\ call.made = 1
    /\ branching_factor_ = 3
    /\ nodes[Len(nodes)].is_leaf
    /\ \E n \in 1..Len(nodes) :
          /\ nodes[n].is_leaf /\ nodes[n].next = Len(nodes)
          /\ Len(nodes[n].keys) + Len(nodes[Len(nodes)].keys) = 3
    /\ \E k \in KeyDomain : OverflowsLeaf(k)

\* ---- C22 -----------------------------------------------------------------------
\* C22 as stated: a full Internal node that absorbs a promoted key promotes
\* the key at index mid = max_keys / 2 of the expanded array of max_keys + 1
\* keys and keeps mid keys, for even and odd max_keys.
C22_InternalSplitAtMaxKeysHalf ==
    \A n \in InternalNodes(nodes), k \in KeyDomain, v \in ValDomain :
        SplitsInternal(n, k, v) =>
            InternalSplitsAt(n, k, v, nodes[n].max_keys \div 2)

\* C22 amended: the same with mid = (max_keys + 1) / 2 in integer division,
\* half the length of the expanded array: 1 for max_keys = 2, 2 for max_keys = 3.
C22_InternalSplitAtExpandedHalf ==
    \A n \in InternalNodes(nodes), k \in KeyDomain, v \in ValDomain :
        SplitsInternal(n, k, v) =>
            InternalSplitsAt(n, k, v, (nodes[n].max_keys + 1) \div 2)

\* an insert has just split the full root of odd capacity 3: the new root
\* holds the promoted key over a left node of two keys and a right node of one
C22_Witness ==
    /\ call.op = "insert" /\ call.made = 3
    /\ branching_factor_ = 4
    /\ root_ = Len(nodes)
    /\ Len(nodes[root_].keys) = 1
    /\ Len(nodes[nodes[root_].children[1]].keys) = 2
    /\ Len(nodes[nodes[root_].children[2]].keys) = 1
    /\ ~nodes[nodes[root_].children[1]].is_leaf

\* ---- C23 -----------------------------------------------------------------------
\* C23: an internal split loses and duplicates nothing: the promoted key is in
\* neither node, the left keys, the promoted key and the right keys are the
\* expanded key array, the left children followed by the right children are
\* the old children with the new sibling right after the child that split,
\* and each node has key_count + 1 children.
C23_InternalSplitLossless ==
    \A n \in InternalNodes(nodes), k \in KeyDomain, v \in ValDomain :
        SplitsInternal(n, k, v) =>
            LET r == insert_helper(nodes, n, k, v)
                left == r.heap[n]
                right == r.heap[r.second]
                ci == child_index(nodes[n], k)
                oc == nodes[n].children
            IN  /\ r.first \notin Range(left.keys) \cup Range(right.keys)
                /\ left.keys \o <<r.first>> \o right.keys = Expanded(n, k, v)
                /\ left.children \o right.children =
                      SubSeq(oc, 1, ci + 1) \o <<FromChild(n, k, v).second>>
                          \o SubSeq(oc, ci + 2, Len(oc))
                /\ Len(left.children) = left.key_count + 1
                /\ Len(right.children) = right.key_count + 1
                /\ left.key_count = Len(left.keys)
                /\ right.key_count = Len(right.keys)

\* an insert has just split a leaf and an internal node that is not the root:
\* the newest node is an internal node and the root took its promoted key
C23_Witness ==
    /\ call.op = "insert" /\ call.made = 2
    /\ ~nodes[Len(nodes)].is_leaf
    /\ root_ # Len(nodes)
    /\ \E c \in 1..Len(nodes[root_].children) :
          nodes[root_].children[c] = Len(nodes)
    /\ Height(nodes, root_) = 3

\* ---- C24 -----------------------------------------------------------------------
\* C24: when an insert overflows a leaf, the new pair goes to the right leaf
\* iff its key exceeds the greatest key the left leaf has after the split;
\* the separator handed up is the first key of the right leaf as it stands
\* with the new pair placed, and after the call that key is stored both in
\* the right leaf and in an internal node.
C24_OverflowPlacement ==
    \A k \in KeyDomain, v \in ValDomain :
        OverflowsLeaf(k) =>
            LET n == descend(nodes, root_, k)
                r == FromLeaf(k, v)
                left == r.heap[n]
                right == r.heap[r.second]
                after == insert(nodes, root_, branching_factor_, k, v).heap
            IN  /\ r.second \in NewNodes(nodes, r.heap)
                /\ (k \in Range(right.keys)) <=> (k > Max(Range(left.keys) \ {k}))
                /\ (k \in Range(left.keys)) <=> ~(k \in Range(right.keys))
                /\ r.first = right.keys[1]
                /\ after[r.second].keys[1] = r.first
                /\ \E p \in InternalNodes(after) : r.first \in Range(after[p].keys)

\* a leaf has just been split, and a key can be inserted now that overflows
\* its leaf, lands at the front of the right leaf and becomes the separator
C24_Witness ==
    /\ call.op = "insert" /\ call.made >= 1
    /\ \E k \in KeyDomain, v \in ValDomain :
          /\ OverflowsLeaf(k)
          /\ FromLeaf(k, v).first = k
          /\ Len(FromLeaf(k, v).heap[FromLeaf(k, v).second].keys) >= 2

\* ---- C25 -----------------------------------------------------------------------
\* C25: a leaf split puts the new leaf into the chain right after the split
\* leaf: the new leaf's next is the split leaf's former next, the split leaf's
\* next is the new leaf, and no other leaf's next changes.
C25_SplitSplicesChain ==
    \A k \in KeyDomain, v \in ValDomain :
        OverflowsLeaf(k) =>
            LET n == descend(nodes, root_, k)
                after == insert(nodes, root_, branching_factor_, k, v).heap
                fresh == {m \in NewNodes(nodes, after) : after[m].is_leaf}
            IN  /\ Cardinality(fresh) = 1
                /\ \A m \in fresh :
                      /\ after[n].next = m
                      /\ after[m].next = nodes[n].next
                /\ \A j \in 1..Len(nodes) :
                      (nodes[j].is_leaf /\ j # n) => after[j].next = nodes[j].next

\* an insert has just split a leaf that was not the last of the chain: the
\* newest node is a leaf linked between its left neighbour and a third leaf
C25_Witness ==
    /\ call.op = "insert" /\ call.made = 1
    /\ nodes[Len(nodes)].is_leaf
    /\ nodes[Len(nodes)].next # NULL
    /\ \E n \in 1..(Len(nodes) - 1) : nodes[n].is_leaf /\ nodes[n].next = Len(nodes)
    /\ \E k \in KeyDomain : OverflowsLeaf(k) /\ nodes[descend(nodes, root_, k)].next # NULL

\* ---- C26 -----------------------------------------------------------------------
\* C26: inserting a key that is present never splits, also when its leaf is
\* full: the number of nodes, the root, every key array, children array and
\* next link are unchanged, and the only value slot written is the key's.
C26_UpdateChangesOneSlot ==
    \A k \in PresentKeys, v \in ValDomain :
        LET n == descend(nodes, root_, k)
            r == insert(nodes, root_, branching_factor_, k, v)
        IN  /\ Len(r.heap) = Len(nodes)
            /\ r.root = root_
            /\ \A j \in 1..Len(nodes) :
                  /\ r.heap[j] = [nodes[j] EXCEPT !.values = r.heap[j].values]
                  /\ j # n => r.heap[j] = nodes[j]
            /\ Len(r.heap[n].values) = Len(nodes[n].values)
            /\ \A i \in 1..Len(nodes[n].keys) :
                  r.heap[n].values[i] =
                      IF nodes[n].keys[i] = k THEN v ELSE nodes[n].values[i]

\* an insert has just given a present key another value without allocating,
\* in a tree of three levels whose leaf for some present key is full
C26_Witness ==
    /\ call.op = "insert" /\ call.prior = "other" /\ call.made = 0
    /\ Height(nodes, root_) = 3
    /\ \E k \in PresentKeys : is_full(nodes[descend(nodes, root_, k)])

\* ---- C27 -----------------------------------------------------------------------
\* C27: when an insert splits the root, the new root is an Internal node with
\* one key, the promoted key, and two children, the old root and then the new
\* sibling, and the tree is one level higher; an insert that does not split
\* the root leaves root and height as they were (the first insert makes the
\* leaf root: height one).
C27_RootSplitGrowsByOne ==
    \A k \in KeyDomain, v \in ValDomain :
        LET r == insert(nodes, root_, branching_factor_, k, v)
        IN  IF root_ = NULL
            THEN Height(r.heap, r.root) = 1
            ELSE LET up == insert_helper(nodes, root_, k, v)
                 IN  IF up.second # NULL
                     THEN /\ r.root \in NewNodes(nodes, r.heap)
                          /\ ~r.heap[r.root].is_leaf
                          /\ r.heap[r.root].keys = <<up.first>>
                          /\ r.heap[r.root].key_count = 1
                          /\ r.heap[r.root].children = <<root_, up.second>>
                          /\ up.second \in NewNodes(nodes, r.heap)
                          /\ Depths(r.heap, r.root) = {Height(nodes, root_)}
                     ELSE /\ r.root = root_
                          /\ Depths(r.heap, r.root) = Depths(nodes, root_)

\* an insert has just split an internal root: the newest node is the root,
\* with one key over the old root and its new sibling, three levels high
C27_Witness ==
    /\ call.op = "insert" /\ call.made = 3
    /\ root_ = Len(nodes)
    /\ nodes[root_].key_count = 1
    /\ Len(nodes[root_].children) = 2
    /\ nodes[root_].children[2] = Len(nodes) - 1
    /\ ~nodes[nodes[root_].children[1]].is_leaf
    /\ Depths(nodes, root_) = {2}

\* ---- C28 -----------------------------------------------------------------------
\* C28: an absent key inserted into a leaf that is not full creates no node
\* and changes no node but that leaf, which gains the key; an Internal node
\* that is not full and whose child splits gains exactly the key and the node
\* the child hands up and reports no split to its own caller.
C28_SplitOnlyOnOverflow ==
    \A k \in AbsentKeys, v \in ValDomain :
        root_ # NULL =>
            LET leaf == descend(nodes, root_, k)
                r == insert(nodes, root_, branching_factor_, k, v)
            IN  /\ Len(nodes[leaf].keys) < nodes[leaf].max_keys =>
                      /\ Len(r.heap) = Len(nodes)
                      /\ r.root = root_
                      /\ \A j \in 1..Len(nodes) : j # leaf => r.heap[j] = nodes[j]
                      /\ Range(r.heap[leaf].keys) = Range(nodes[leaf].keys) \cup {k}
                      /\ r.heap[leaf].next = nodes[leaf].next
                /\ \A n \in Path(nodes, root_, k) \ {leaf} :
                      (/\ Len(nodes[n].keys) < nodes[n].max_keys
                       /\ FromChild(n, k, v).second # NULL) =>
                          LET up == insert_helper(nodes, n, k, v)
                          IN  /\ up.second = NULL
                              /\ Len(up.heap[n].keys) = Len(nodes[n].keys) + 1
                              /\ Len(up.heap[n].children) = Len(nodes[n].children) + 1
                              /\ Range(up.heap[n].keys) =
                                    Range(nodes[n].keys) \cup {FromChild(n, k, v).first}
                              /\ Range(up.heap[n].children) =
                                    Range(nodes[n].children)
                                        \cup {FromChild(n, k, v).second}

\* an insert has just split a leaf below an internal node that is not the
\* root and that took the new leaf in, the root and its height unchanged
C28_Witness ==
    /\ call.op = "insert" /\ call.made = 1
    /\ Height(nodes, root_) = 3
    /\ nodes[Len(nodes)].is_leaf
    /\ \E n \in InternalNodes(nodes) \ {root_} :
          /\ Len(nodes[n].children) >= 3
          /\ \E c \in 1..Len(nodes[n].children) : nodes[n].children[c] = Len(nodes)
    /\ \E m \in 1..Len(nodes) : nodes[m].is_leaf /\ ~is_full(nodes[m])

\* ---- C29 -----------------------------------------------------------------------
\* C29: remove(k) changes at most the keys and values of the one leaf that
\* held k, which loses that pair alone: no node is created, no Internal node
\* changes, every next link stays, no pair moves between leaves, also when
\* the leaf is left under-populated or empty.
C29_RemoveTouchesOneLeaf ==
    \A k \in KeyDomain :
        root_ # NULL =>
            LET leaf == descend(nodes, root_, k)
                r == remove(nodes, root_, k)
            IN  /\ Len(r.heap) = Len(nodes)
                /\ \A j \in 1..Len(nodes) :
                      /\ j # leaf => r.heap[j] = nodes[j]
                      /\ r.heap[j].next = nodes[j].next
                      /\ r.heap[j].children = nodes[j].children
                      /\ r.heap[j].is_leaf = nodes[j].is_leaf
                /\ Pairs(r.heap[leaf]) = PairsWithout(nodes[leaf], k)
                /\ r.heap[leaf].key_count = Len(r.heap[leaf].keys)

\* a remove has just emptied a leaf whose key is still a separator of its
\* parent; the leaf is under-populated and still linked to its neighbour
C29_Witness ==
    /\ call.op = "remove" /\ call.ret
    /\ \E n \in 1..Len(nodes), p \in InternalNodes(nodes) :
          /\ nodes[n].is_leaf /\ nodes[n].key_count = 0
          /\ is_underflow(nodes[n])
          /\ nodes[n].next # NULL
          /\ \E c \in 1..Len(nodes[p].keys) :
                /\ nodes[p].children[c + 1] = n
                /\ live[nodes[p].keys[c]] = nullopt

\* ---- C30 -----------------------------------------------------------------------
\* C30: when remove returns, if the root is an Internal node with no key and
\* a single child, that child has become the root and the tree is one level
\* lower; in every other case the root is the node it was.
C30_RootCollapseOnlyWhenKeyless ==
    \A k \in KeyDomain :
        LET r == remove(nodes, root_, k)
        IN  IF root_ = NULL
            THEN r.root = NULL
            ELSE IF /\ ~r.heap[root_].is_leaf
                    /\ r.heap[root_].key_count = 0
                    /\ Len(r.heap[root_].children) = 1
            THEN /\ r.root = r.heap[root_].children[1]
                 /\ Height(r.heap, r.root) = Height(nodes, root_) - 1
            ELSE r.root = root_

\* a remove has just taken the last pair out of a tree whose root is an
\* Internal node: the root still has its key and is the node it was
C30_Witness ==
    /\ call.op = "remove" /\ call.ret
    /\ root_ # NULL /\ ~nodes[root_].is_leaf
    /\ nodes[root_].key_count >= 1
    /\ PresentKeys = {}
    /\ \A n \in 1..Len(nodes) : nodes[n].is_leaf => nodes[n].key_count = 0

\* ---- C31 -----------------------------------------------------------------------
\* C31: every Internal node has at least one key and two children; so no
\* remove takes the root-collapse branch, and no insert or remove lowers the
\* height, not even the remove of the last live key.
C31_InternalNeverKeyless ==
    /\ \A n \in InternalNodes(nodes) :
          nodes[n].key_count >= 1 /\ Len(nodes[n].children) >= 2
    /\ \A k \in KeyDomain :
          LET r == remove(nodes, root_, k)
          IN  /\ r.root = root_
              /\ Height(r.heap, r.root) = Height(nodes, root_)
    /\ \A k \in KeyDomain, v \in ValDomain :
          LET r == insert(nodes, root_, branching_factor_, k, v)
          IN  Height(r.heap, r.root) >= Height(nodes, root_)

\* a remove has just taken the last pair out of a tree of three levels: all
\* three internal nodes still have their keys and the height is three
C31_Witness ==
    /\ call.op = "remove" /\ call.ret
    /\ PresentKeys = {}
    /\ Height(nodes, root_) = 3
    /\ Cardinality(InternalNodes(nodes)) = 3
    /\ \A n \in InternalNodes(nodes) : nodes[n].key_count >= 1

\* ---- C32 -----------------------------------------------------------------------
\* C32: in a tree built by inserts alone, right after every insert, no node
\* other than the root is in underflow: each holds (max_keys + 1) / 2 keys
\* or more, for every branching factor.
C32_NoUnderflowWithoutRemove ==
    \A n \in 1..Len(nodes) : n # root_ => ~is_underflow(nodes[n])

\* ---- C38 -----------------------------------------------------------------------
\* C38 as stated: is_underflow() is true exactly when
\* key_count < ceil((max_keys + 1) / 2), the threshold being 2 for max_keys = 2.
\* (For integers, k < ceil(x / 2) is 2k < x, and k < floor(x / 2) is 2k + 1 < x.)
C38_UnderflowBelowCeil ==
    \A n \in 1..Len(nodes) :
        is_underflow(nodes[n]) <=> (2 * nodes[n].key_count < nodes[n].max_keys + 1)

\* C38 amended: is_underflow() is true exactly when
\* key_count < (max_keys + 1) / 2 in integer division (rounded down): the
\* threshold is 1 for max_keys = 2 and 2 for max_keys = 3.
C38_UnderflowBelowFloor ==
    \A n \in 1..Len(nodes) :
        is_underflow(nodes[n]) <=> (2 * nodes[n].key_count < nodes[n].max_keys)

\* nodes of capacity 2 on both sides of the threshold: a leaf with one key,
\* not in underflow, and an emptied leaf, in underflow
C38_Witness ==
    /\ branching_factor_ = 3
    /\ \E n \in 1..Len(nodes) : nodes[n].key_count = 1 /\ ~is_underflow(nodes[n])
    /\ \E n \in 1..Len(nodes) : nodes[n].key_count = 0 /\ is_underflow(nodes[n])
    /\ \E n \in 1..Len(nodes) : nodes[n].key_count = 2 /\ ~is_underflow(nodes[n])

\* ---- C33 -----------------------------------------------------------------------
\* C33: the terminal state is absorbing: a pre- or post-increment of a
\* terminal cursor leaves it terminal and the very cursor it was, so no
\* number of advances makes it point at a leaf again.
C33_TerminalAbsorbing ==
    [][(is_end(it) /\ call'.op \in {"pre_increment", "post_increment"}) =>
          /\ is_end(it')
          /\ it' = it
          /\ iterator_eq(it', it)]_vars

\* a bounded cursor that an advance made terminal with a non-zero index has
\* just been advanced again
C33_Witness ==
    /\ call.op \in {"pre_increment", "post_increment"}
    /\ call.prior = "terminal"
    /\ is_end(it)
    /\ it.has_end /\ it.current_index > 0
    /\ root_ # NULL

\* ---- C34 -----------------------------------------------------------------------
\* the keys of the dereferences that succeed while a cursor is walked to the end
YieldedKeys(h, i) ==
    LET w == SelectSeq(Walk(h, i), LAMBDA p : p # out_of_range)
    IN  [j \in 1..Len(w) |-> w[j][1]]

\* C34: on a tree that is not modified during the walk, the keys a cursor
\* yields from where it stands are strictly increasing (so none comes twice),
\* and a walk from range_begin leaves out no live key >= start (and <= end
\* when bounded).
C34_ForwardOnly ==
    /\ StrictlyIncreasing(YieldedKeys(nodes, it))
    /\ \A s \in KeyDomain :
          LET y == YieldedKeys(nodes, range_begin(nodes, root_, s))
          IN  StrictlyIncreasing(y) /\ LiveFrom(s) \subseteq Range(y)
    /\ \A s \in KeyDomain, e \in KeyDomain :
          LET y == YieldedKeys(nodes, range_begin_bounded(nodes, root_, s, e))
          IN  /\ StrictlyIncreasing(y)
              /\ {k \in LiveFrom(s) : k <= e} \subseteq Range(y)

\* a cursor in mid-walk has just crossed an emptied leaf onto the first key of
\* the leaf after it, with a live key still ahead
C34_Witness ==
    /\ call.op = "pre_increment" /\ call.prior = "positioned"
    /\ ~is_end(it) /\ it.current_index = 0
    /\ deref(nodes, it) # out_of_range
    /\ \E n \in 1..Len(nodes) :
          nodes[n].is_leaf /\ nodes[n].key_count = 0 /\ nodes[n].next = it.current_leaf
    /\ Len(YieldedKeys(nodes, it)) >= 2

\* ---- C37 -----------------------------------------------------------------------
\* the descent for key reaches a leaf from n in at most fuel steps down
RECURSIVE DescendsWithin(_, _, _, _)
DescendsWithin(h, n, key, fuel) ==
    /\ n # NULL
    /\ \/ h[n].is_leaf
       \/ /\ fuel > 0
          /\ DescendsWithin(h, get_child(h[n], child_index(h[n], key)), key, fuel - 1)

\* following next from leaf reaches none in at most fuel steps
RECURSIVE ChainEndsWithin(_, _, _)
ChainEndsWithin(h, leaf, fuel) ==
    leaf = NULL \/ (fuel > 0 /\ ChainEndsWithin(h, h[leaf].next, fuel - 1))

\* advancing cursor i at most fuel times makes it terminal
RECURSIVE TerminalWithin(_, _, _)
TerminalWithin(h, i, fuel) ==
    is_end(i) \/ (fuel > 0 /\ TerminalWithin(h, advance(h, i), fuel - 1))

Leaves(h) == {n \in 1..Len(h) : h[n].is_leaf}

\* C37: every operation ends: the descent of insert, remove, search,
\* range_query and range_begin reaches a leaf within height - 1 steps, the
\* chain walk of range_query and range_begin reaches none within as many
\* steps as there are leaves, and a cursor advanced on the unmodified tree
\* is terminal within (stored pairs + leaves) advances.
C37_OperationsTerminate ==
    /\ \A k \in KeyDomain :
          root_ # NULL =>
              /\ DescendsWithin(nodes, root_, k, Height(nodes, root_) - 1)
              /\ ChainEndsWithin(nodes, descend(nodes, root_, k),
                                 Cardinality(Leaves(nodes)))
    /\ TerminalWithin(nodes, it,
                      Cardinality(LeafSlots(nodes)) + Cardinality(Leaves(nodes)))
    /\ \A s \in KeyDomain, e \in KeyDomain :
          /\ TerminalWithin(nodes, range_begin(nodes, root_, s),
                            Cardinality(LeafSlots(nodes)) + Cardinality(Leaves(nodes)))
          /\ TerminalWithin(nodes, range_begin_bounded(nodes, root_, s, e),
                            Cardinality(LeafSlots(nodes)) + Cardinality(Leaves(nodes)))

\* a cursor stands on the first leaf of a chain that holds an emptied leaf:
\* three advances do not end its walk, the budget does
C37_Witness ==
    /\ call.op \in {"range_begin", "post_increment"}
    /\ ~is_end(it)
    /\ ~TerminalWithin(nodes, it, 3)
    /\ TerminalWithin(nodes, it,
                      Cardinality(LeafSlots(nodes)) + Cardinality(Leaves(nodes)))
    /\ EmptyLeafInChain
    /\ Height(nodes, root_) = 2

\* ---- C35 -----------------------------------------------------------------------
ObserverOps ==
    {"search", "range_query", "empty", "range_begin", "range_begin_bounded",
     "range_end", "dereference", "pre_increment", "post_increment", "equals",
     "is_end"}

\* C35: search, range_query, range_begin (both forms), range_end, empty and
\* the iterator's dereference, increments, comparison and is_end leave the
\* tree as it was: the same root, and in every node the same keys, values,
\* children and next link (the arena holds all of them), whatever the caller
\* did before.
C35_ObserversLeaveTree ==
    [][call'.op \in ObserverOps =>
          /\ root_' = root_
          /\ nodes' = nodes
          /\ branching_factor_' = branching_factor_]_vars

\* a range_query that returned two pairs on a tree of two levels, while the
\* caller holds a cursor on a leaf of it
C35_Witness ==
    /\ call.op = "range_query"
    /\ Len(call.ret) >= 2
    /\ root_ # NULL /\ Height(nodes, root_) = 2
    /\ ~is_end(it)

\* ---- C36 -----------------------------------------------------------------------
\* C36: a cursor is not stable under a mutation made between two of its
\* steps.  For a cursor that stands on a pair (key x, index i of leaf L):
\*  - on the last pair of L, a remove of any key of L leaves it non-terminal
\*    with i >= key_count of L, and its dereference fails with out_of_range;
\*  - on the last pair of a full L, an insert of an absent key that routes to
\*    L splits L: the cursor stays non-terminal on L, whose next leaf is the
\*    new one; the dereference fails with out_of_range (always when the key
\*    went to the new leaf) or yields a key below x; and advancing yields x
\*    again (x within the cursor's bound);
\*  - not on the last pair, a remove of a key <= x of L makes the cursor skip
\*    the pair that followed x: it stays stored, and the walk from the next
\*    advance never yields it.
C36_StaleCursorUnstable ==
    (~is_end(it) /\ deref(nodes, it) # out_of_range) =>
        LET L == it.current_leaf
            i == it.current_index
            leaf == nodes[L]
            x == leaf.keys[i + 1]
        IN  /\ i = leaf.key_count - 1 =>
                  \A k \in Range(leaf.keys) :
                      LET r == remove(nodes, root_, k)
                      IN  /\ r.ret
                          /\ ~is_end(it)
                          /\ i >= r.heap[L].key_count
                          /\ deref(r.heap, it) = out_of_range
            /\ (i = leaf.key_count - 1 /\ is_full(leaf)) =>
                  \A k \in AbsentKeys, v \in ValDomain :
                      descend(nodes, root_, k) = L =>
                          LET r == insert(nodes, root_, branching_factor_, k, v)
                              back == leaf.keys[leaf_split_mid(leaf.max_keys)]
                          IN  /\ ~is_end(it)
                              /\ r.heap[L].next > Len(nodes)
                              /\ k > back =>
                                     /\ i >= r.heap[L].key_count
                                     /\ deref(r.heap, it) = out_of_range
                              /\ \/ deref(r.heap, it) = out_of_range
                                 \/ deref(r.heap, it)[1] < x
                              /\ (~it.has_end \/ x <= it.end_key) =>
                                     x \in Range(YieldedKeys(r.heap, advance(r.heap, it)))
            /\ i < leaf.key_count - 1 =>
                  \A k \in Range(leaf.keys) :
                      k <= x =>
                          LET r == remove(nodes, root_, k)
                              y == leaf.keys[i + 2]
                          IN  /\ r.ret
                              /\ search(r.heap, r.root, y) # nullopt
                              /\ y \notin Range(YieldedKeys(r.heap, advance(r.heap, it)))

\* an insert has split the leaf a cursor stood on: the cursor is still
\* non-terminal on that leaf, its index is past the keys the leaf kept, the
\* dereference fails, and the leaf's next is the leaf the insert made
C36_Witness ==
    /\ call.op = "insert" /\ call.made >= 1
    /\ it_stale
    /\ ~is_end(it)
    /\ it.current_index >= nodes[it.current_leaf].key_count
    /\ deref(nodes, it) = out_of_range
    /\ nodes[it.current_leaf].next > Len(nodes) - call.made
    /\ nodes[it.current_leaf].key_count >= 1

====
